---- MODULE Spec2Model ----
(***************************************************************************)
(* A model of my-awesome-bot/bot.py: the HiddenGemsBot decision engine and *)
(* the main loop that feeds it one JSON observation per input line.        *)
(*                                                                         *)
(* Conventions                                                             *)
(*  - a cell is a pair <<x, y>>; the map is a function from the cells of   *)
(*    the width x height grid to UNKNOWN / WALL / FLOOR (self.map[x][y]);  *)
(*  - self.gems is a Python dict: it is modelled as the sequence of its    *)
(*    records in insertion order, which is the order the dict iterates in; *)
(*  - signal levels are integers in units of 1/40, and the move scores are *)
(*    doubled, so that 1.5, 2.0 and 20 * (signal difference) are integers; *)
(*  - the fields signal_radius, vis_radius, max_ticks, signal_history,     *)
(*    current_path and current_target are written but never read by the    *)
(*    program and are left out.                                            *)
(***************************************************************************)
EXTENDS Integers, Sequences, FiniteSets, TLC

VARIABLES
    first_tick,             \* main: no observation has configured the bot yet
    config,                 \* main: the "config" object of the first observation
    width, height,          \* HiddenGemsBot.width / height
    map,                    \* HiddenGemsBot.map
    x, y,                   \* HiddenGemsBot.x / y
    tick,                   \* HiddenGemsBot.tick
    gems,                   \* HiddenGemsBot.gems (dict, in insertion order)
    collected_gems,         \* HiddenGemsBot.collected_gems
    frontier,               \* HiddenGemsBot.frontier
    position_history,       \* HiddenGemsBot.position_history
    signal_gradient_memory, \* HiddenGemsBot.signal_gradient_memory
    last_real_gem_tick,     \* HiddenGemsBot.last_real_gem_tick
    data,                   \* main: the line read last (parsed)
    out,                    \* main: the tokens written to stdout for that line
    raised,                 \* main: where that line raised, "none" if nowhere
    branch,                 \* decide_move: the return statement it left by
    nread,                  \* non-blank lines read so far
    nwritten,               \* tokens written to stdout so far
    start, targets, path    \* bfs: its two arguments and its result

vars == <<first_tick, config, width, height, map, x, y, tick, gems,
          collected_gems, frontier, position_history, signal_gradient_memory,
          last_real_gem_tick, data, out, raised, branch, nread,
          nwritten, start, targets, path>>

botvars == <<first_tick, config, width, height, map, x, y, tick, gems,
             collected_gems, frontier, position_history,
             signal_gradient_memory, last_real_gem_tick>>

iovars == <<data, out, raised, branch, nread, nwritten>>

bfsvars == <<start, targets, path>>

---------------------------------------------------------------------------
(* Bounds of the model *)

\* the configured grid is Width x Height
Width == 3
Height == 3
\* non-blank lines the main loop reads in one run
MaxLines == 4
\* Wall cells of the maps bfs is run on
MaxWalls == 2
\* lines the main loop reads in a run that places the bot by hand or by
\* its own moves
MaxMoves == 3
\* lines the main loop reads in a run that overflows the history buffers
MaxRun == 33

---------------------------------------------------------------------------
(* Program constants *)

UNKNOWN == 0
WALL == 1
FLOOR == 2

\* in_signal_hunt_mode: (self.tick - self.last_real_gem_tick) >= 150
HUNT_TICKS == 150
\* decide_move: len(self.position_history) > 30
POSITION_HISTORY_CAP == 30
\* decide_move: len(self.signal_gradient_memory) > 20
SIGNAL_MEMORY_CAP == 20
\* __init__: self.width = 19, self.height = 19
INITIAL_SIZE == 19

\* GemTracker(ttl=None): a JSON null ttl
TTL_NONE == -1
\* a visible gem whose object has no "ttl" key: g["ttl"] raises KeyError
TTL_MISSING == -2

\* the keys of DIRECTIONS in the order the dict iterates in
DirOrder == <<"N", "S", "E", "W">>

DIRECTIONS == [N |-> <<0, -1>>, S |-> <<0, 1>>, E |-> <<1, 0>>, W |-> <<-1, 0>>]

Moves == {"N", "S", "E", "W", "WAIT"}

---------------------------------------------------------------------------
(* Helpers *)

Cells(w, h) == (0 .. w - 1) \X (0 .. h - 1)

Step(c, d) == <<c[1] + DIRECTIONS[d][1], c[2] + DIRECTIONS[d][2]>>

Abs(n) == IF n < 0 THEN -n ELSE n

Manhattan(a, b) == Abs(a[1] - b[1]) + Abs(a[2] - b[2])

\* Python's tuple order
TupleLess(a, b) == a[1] < b[1] \/ (a[1] = b[1] /\ a[2] < b[2])

\* a Python list index i into a list of n items: valid from -n to n - 1,
\* a negative one counting from the end
IndexOk(i, n) == -n <= i /\ i < n

PyIndex(i, n) == IF i < 0 THEN i + n ELSE i

RECURSIVE SeqSum(_)
SeqSum(s) == IF s = <<>> THEN 0 ELSE Head(s) + SeqSum(Tail(s))

Range(s) == {s[i] : i \in 1 .. Len(s)}

---------------------------------------------------------------------------
(* MAP *)

initialize_map(w, h) == [c \in Cells(w, h) |-> UNKNOWN]

is_walkable(m, w, h, c) ==
    /\ 0 <= c[1] /\ c[1] < w
    /\ 0 <= c[2] /\ c[2] < h
    /\ m[c] # WALL

\* the loop over DIRECTIONS.values() of _update_frontier
HasUnknownNeighbour(m, w, h, c) ==
    \E i \in 1 .. Len(DirOrder) :
        LET n == Step(c, DirOrder[i]) IN
        /\ 0 <= n[1] /\ n[1] < w
        /\ 0 <= n[2] /\ n[2] < h
        /\ m[n] = UNKNOWN

\* a frontier test that takes every neighbour that is not Floor for Unknown
update_frontier_not_floor(m, w, h) ==
    {c \in Cells(w, h) :
        /\ m[c] = FLOOR
        /\ \E n \in Cells(w, h) : Manhattan(c, n) = 1 /\ m[n] # FLOOR}

update_frontier(m, w, h) ==
    {c \in Cells(w, h) : m[c] = FLOOR /\ HasUnknownNeighbour(m, w, h, c)}

\* one "for c in cells: self.map[c[0]][c[1]] = cls" loop; st = [map, raised]
RECURSIVE mark_cells(_, _, _, _, _)
mark_cells(st, w, h, cells, cls) ==
    IF cells = <<>> \/ st.raised THEN st
    ELSE LET c == Head(cells) IN
         IF ~(IndexOk(c[1], w) /\ IndexOk(c[2], h))
         THEN [st EXCEPT !.raised = TRUE]
         ELSE mark_cells(
                 [st EXCEPT !.map[<<PyIndex(c[1], w), PyIndex(c[2], h)>>] = cls],
                 w, h, Tail(cells), cls)

\* [map, frontier, raised]: an IndexError leaves the cells written so far
\* and the old frontier
update_map(m, fr, w, h, walls, floors) ==
    LET a == mark_cells([map |-> m, raised |-> FALSE], w, h, walls, WALL)
        b == mark_cells(a, w, h, floors, FLOOR)
    IN  IF b.raised
        THEN [map |-> b.map, frontier |-> fr, raised |-> TRUE]
        ELSE [map |-> b.map, frontier |-> update_frontier(b.map, w, h),
              raised |-> FALSE]

---------------------------------------------------------------------------
(* GEM TRACKING *)

GemKeys(gs) == {gs[i].pos : i \in 1 .. Len(gs)}

GemAt(gs, p) == gs[CHOOSE i \in 1 .. Len(gs) : gs[i].pos = p]

\* GemTracker.__init__ followed by the write of last_seen
GemTracker(p, ttl, tk) ==
    [pos |-> p, ttl |-> ttl, confidence |-> 1, last_seen |-> tk,
     estimated |-> (ttl = TTL_NONE)]

\* the first loop of update_gems; st = [gems, last_real_gem_tick,
\* visible_positions, raised]
RECURSIVE see_gems(_, _, _)
see_gems(st, visible, tk) ==
    IF visible = <<>> THEN st
    ELSE LET g == Head(visible) IN
         IF g.ttl = TTL_MISSING THEN [st EXCEPT !.raised = TRUE]
         ELSE LET gs == st.gems
                  upd(r) == IF r.pos = g.position
                            THEN [r EXCEPT !.ttl = g.ttl, !.last_seen = tk,
                                           !.confidence = 1,
                                           !.estimated = FALSE]
                            ELSE r
                  gs2 == IF g.position \in GemKeys(gs)
                         THEN [i \in 1 .. Len(gs) |-> upd(gs[i])]
                         ELSE Append(gs, GemTracker(g.position, g.ttl, tk))
              IN  see_gems([gems |-> gs2,
                            last_real_gem_tick |-> tk,
                            visible_positions |->
                                st.visible_positions \cup {g.position},
                            raised |-> FALSE],
                           Tail(visible), tk)

\* a test that takes a gem for collected on its first tick out of view
is_collected_at_once(g, visible_positions, tk) ==
    /\ ~g.estimated
    /\ g.pos \notin visible_positions
    /\ g.last_seen < tk

\* a test that tolerates two ticks out of view
is_collected_late(g, visible_positions, tk) ==
    /\ ~g.estimated
    /\ g.pos \notin visible_positions
    /\ g.last_seen < tk - 2

\* update_gems' test for a gem that has gone
is_collected(g, visible_positions, tk) ==
    /\ ~g.estimated
    /\ g.pos \notin visible_positions
    /\ g.last_seen < tk - 1

\* [gems, collected_gems, last_real_gem_tick, raised]
update_gems(gs, coll, lrt, tk, visible) ==
    LET a == see_gems([gems |-> gs, last_real_gem_tick |-> lrt,
                       visible_positions |-> {}, raised |-> FALSE],
                      visible, tk)
        gone(g) == is_collected(g, a.visible_positions, tk)
        kept(g) == ~gone(g)
    IN  IF a.raised
        THEN [gems |-> a.gems, collected_gems |-> coll,
              last_real_gem_tick |-> a.last_real_gem_tick, raised |-> TRUE]
        ELSE [gems |-> SelectSeq(a.gems, kept),
              collected_gems |->
                  coll \cup {a.gems[i].pos : i \in {j \in 1 .. Len(a.gems) : gone(a.gems[j])}},
              last_real_gem_tick |-> a.last_real_gem_tick, raised |-> FALSE]

---------------------------------------------------------------------------
(* PATHFINDING *)

\* the neighbours of cell c the inner loop of bfs enqueues, in loop order
new_neighbours(m, w, h, c, visited) ==
    SelectSeq(DirOrder,
              LAMBDA d : /\ Step(c, d) \notin visited
                         /\ is_walkable(m, w, h, Step(c, d)))

\* the while loop of bfs; queue holds [cell, path] records
RECURSIVE bfs_loop(_, _, _, _, _, _)
bfs_loop(m, w, h, queue, visited, tg) ==
    IF queue = <<>> THEN <<>>
    ELSE LET cur == Head(queue)
             ds == new_neighbours(m, w, h, cur.cell, visited)
         IN  IF cur.cell \in tg THEN cur.path
             ELSE bfs_loop(m, w, h,
                     Tail(queue) \o
                        [i \in 1 .. Len(ds) |->
                            [cell |-> Step(cur.cell, ds[i]),
                             path |-> Append(cur.path, ds[i])]],
                     visited \cup {Step(cur.cell, ds[i]) : i \in 1 .. Len(ds)},
                     tg)

\* a search that takes the cell added last (queue.pop() for queue.popleft())
RECURSIVE lifo_loop(_, _, _, _, _, _)
lifo_loop(m, w, h, stack, visited, tg) ==
    IF stack = <<>> THEN <<>>
    ELSE LET cur == stack[Len(stack)]
             ds == new_neighbours(m, w, h, cur.cell, visited)
         IN  IF cur.cell \in tg THEN cur.path
             ELSE lifo_loop(m, w, h,
                     SubSeq(stack, 1, Len(stack) - 1) \o
                        [i \in 1 .. Len(ds) |->
                            [cell |-> Step(cur.cell, ds[i]),
                             path |-> Append(cur.path, ds[i])]],
                     visited \cup {Step(cur.cell, ds[i]) : i \in 1 .. Len(ds)},
                     tg)

bfs_lifo(m, w, h, st, tg) ==
    IF tg = {} THEN <<>>
    ELSE lifo_loop(m, w, h, <<[cell |-> st, path |-> <<>>]>>, {st}, tg)

bfs(m, w, h, st, tg) ==
    IF tg = {} THEN <<>>
    ELSE bfs_loop(m, w, h, <<[cell |-> st, path |-> <<>>]>>, {st}, tg)

find_path_to_frontier(m, w, h, fr, px, py) == bfs(m, w, h, <<px, py>>, fr)

---------------------------------------------------------------------------
(* SIGNAL HUNT MODE *)

\* a hunt mode entered after one tick without a sighting
in_signal_hunt_mode_at_once(tk, lrt) == (tk - lrt) >= 1

\* a hunt mode that is never entered
in_signal_hunt_mode_never(tk, lrt) == FALSE

in_signal_hunt_mode(tk, lrt) == (tk - lrt) >= HUNT_TICKS

\* twice the score of score_move_signal_only, self being the bot after the
\* two appends of decide_move
score_move_signal_only(self, direction, signal_level) ==
    LET n == Step(<<self.x, self.y>>, direction)
        ph == self.position_history
        sgm == self.signal_gradient_memory
    IN  (IF self.map[n] = UNKNOWN THEN 3 ELSE 0)
      + (IF ph # <<>> /\ n = ph[Len(ph)] THEN -4 ELSE 0)
      + SeqSum([i \in 1 .. Len(sgm) |->
                   IF sgm[i].pos = n THEN signal_level - sgm[i].signal ELSE 0])

---------------------------------------------------------------------------
(* MOVE SCORING *)

\* twice the score of score_move
score_move(self, direction, signal_level) ==
    LET here == <<self.x, self.y>>
        n == Step(here, direction)
        ph == self.position_history
        gs == self.gems
        gem_score(g) ==
            IF (~g.estimated \/ 2 * g.confidence > 1)
               /\ Manhattan(g.pos, n) < Manhattan(g.pos, here)
            THEN (IF ~g.estimated THEN 24 ELSE g.confidence * 12)
            ELSE 0
    IN  SeqSum([i \in 1 .. Len(gs) |-> gem_score(gs[i])])
      + (IF self.map[n] = UNKNOWN THEN 6 ELSE 0)
      + (IF n \in self.frontier THEN 3 ELSE 0)
      + (IF ph # <<>> /\ n = ph[Len(ph)] THEN -4 ELSE 0)

---------------------------------------------------------------------------
(* DECISION LOGIC *)

\* a max that returns the last item with the greatest key
last_max(moves, keys) ==
    LET best == CHOOSE i \in 1 .. Len(moves) :
                    /\ \A j \in 1 .. Len(moves) : keys[j] <= keys[i]
                    /\ \A j \in i + 1 .. Len(moves) : keys[j] < keys[i]
    IN  moves[best]

\* Python's max(moves, key=...), keys[i] being the key of moves[i]: the
\* first item with the greatest key
first_max(moves, keys) ==
    LET best == CHOOSE i \in 1 .. Len(moves) :
                    /\ \A j \in 1 .. Len(moves) : keys[j] <= keys[i]
                    /\ \A j \in 1 .. i - 1 : keys[j] < keys[i]
    IN  moves[best]

\* list.append without the pop(0)
append_uncapped(s, e, cap) == Append(s, e)

\* list.append followed by pop(0) when the list is longer than cap
append_capped(s, e, cap) ==
    IF Len(s) + 1 > cap THEN Tail(Append(s, e)) ELSE Append(s, e)

\* a move list that takes every neighbour on the grid for walkable
moves_through_walls(self) ==
    SelectSeq(DirOrder,
              LAMBDA d : Step(<<self.x, self.y>>, d)
                             \in Cells(self.width, self.height))

\* [d for d in DIRECTIONS if self.is_walkable(...)]
walkable_moves(self) ==
    SelectSeq(DirOrder,
              LAMBDA d : is_walkable(self.map, self.width, self.height,
                                     Step(<<self.x, self.y>>, d)))

\* a decide_move without the "immediate visible gem" loop
no_adjacent_gem(self) == 0

\* the "immediate visible gem" loop: the index in self.gems of the first
\* confirmed gem next to the bot, 0 if there is none
adjacent_gem(self) ==
    LET hit == {i \in 1 .. Len(self.gems) :
                   /\ ~self.gems[i].estimated
                   /\ Manhattan(self.gems[i].pos, <<self.x, self.y>>) = 1}
    IN  IF hit = {} THEN 0 ELSE CHOOSE i \in hit : \A j \in hit : i <= j

\* the direction d with DIRECTIONS[d] = (dx, dy)
direction_to(from, to) ==
    CHOOSE d \in Range(DirOrder) : Step(from, d) = to

\* sorted(self.gems.keys())
RECURSIVE sorted_cells(_)
sorted_cells(S) ==
    IF S = {} THEN <<>>
    ELSE LET lo == CHOOSE c \in S : \A o \in S : o = c \/ TupleLess(c, o)
         IN  <<lo>> \o sorted_cells(S \ {lo})

\* the "normal gem targeting" loop: the first non-empty path to a confirmed
\* gem, the gems taken in sorted order; <<>> if there is none
RECURSIVE gem_path(_, _)
gem_path(self, keys) ==
    IF keys = <<>> THEN <<>>
    ELSE LET p == IF ~GemAt(self.gems, Head(keys)).estimated
                  THEN bfs(self.map, self.width, self.height,
                           <<self.x, self.y>>, {Head(keys)})
                  ELSE <<>>
         IN  IF p # <<>> THEN p ELSE gem_path(self, Tail(keys))

\* the cascade of decide_move after the two appends: [move, branch]
choose_move(self, signal_level) ==
    LET adj == adjacent_gem(self)
        moves == walkable_moves(self)
        hunt_keys == [i \in 1 .. Len(moves) |->
                         score_move_signal_only(self, moves[i], signal_level)]
        fall_keys == [i \in 1 .. Len(moves) |->
                         score_move(self, moves[i], signal_level)]
        gp == gem_path(self, sorted_cells(GemKeys(self.gems)))
        fp == find_path_to_frontier(self.map, self.width, self.height,
                                    self.frontier, self.x, self.y)
    IN  IF adj # 0
        THEN [move |-> direction_to(<<self.x, self.y>>, self.gems[adj].pos),
              branch |-> "adjacent"]
        ELSE IF in_signal_hunt_mode(self.tick, self.last_real_gem_tick)
                /\ moves # <<>>
        THEN [move |-> first_max(moves, hunt_keys),
              branch |-> "hunt"]
        ELSE IF gp # <<>> THEN [move |-> gp[1], branch |-> "gem"]
        ELSE IF fp # <<>> THEN [move |-> fp[1], branch |-> "frontier"]
        ELSE IF moves = <<>> THEN [move |-> "WAIT", branch |-> "wait"]
        ELSE [move |-> first_max(moves, fall_keys),
              branch |-> "fallback"]

\* the bot after decide_move, its result in the fields move and branch
decide_move(self, signal_level) ==
    LET s1 == [self EXCEPT
                 !.position_history =
                     append_capped(@, <<self.x, self.y>>, POSITION_HISTORY_CAP),
                 !.signal_gradient_memory =
                     append_capped(@, [pos |-> <<self.x, self.y>>,
                                       signal |-> signal_level],
                                   SIGNAL_MEMORY_CAP)]
        r == choose_move(s1, signal_level)
    IN  [s1 EXCEPT !.move = r.move, !.branch = r.branch]

---------------------------------------------------------------------------
(* MAIN LOOP *)

\* the bot, with the locals of main and of process_tick the model keeps
Self ==
    [first_tick |-> first_tick, config |-> config,
     width |-> width, height |-> height, map |-> map, x |-> x, y |-> y,
     tick |-> tick, gems |-> gems, collected_gems |-> collected_gems,
     frontier |-> frontier, position_history |-> position_history,
     signal_gradient_memory |-> signal_gradient_memory,
     last_real_gem_tick |-> last_real_gem_tick,
     move |-> "", branch |-> "none", raised |-> "none"]

\* process_tick; data["tick"] and data["bot"] raise KeyError on a line
\* without them
process_tick(self, d) ==
    IF ~d.has_tick THEN [self EXCEPT !.raised = "tick"]
    ELSE IF ~d.has_bot THEN [self EXCEPT !.tick = d.tick, !.raised = "bot"]
    ELSE
    LET s1 == [self EXCEPT !.tick = d.tick, !.x = d.bot[1], !.y = d.bot[2]]
        um == update_map(s1.map, s1.frontier, s1.width, s1.height,
                         d.wall, d.floor)
        s2 == [s1 EXCEPT !.map = um.map, !.frontier = um.frontier]
        ug == update_gems(s2.gems, s2.collected_gems, s2.last_real_gem_tick,
                          s2.tick, d.visible_gems)
        s3 == [s2 EXCEPT !.gems = ug.gems,
                         !.collected_gems = ug.collected_gems,
                         !.last_real_gem_tick = ug.last_real_gem_tick]
    IN  IF um.raised THEN [s2 EXCEPT !.raised = "map"]
        ELSE IF ug.raised THEN [s3 EXCEPT !.raised = "gems"]
        ELSE decide_move(s3, d.signal_level)

\* the "if first_tick" block of main
configure(self, d) ==
    IF self.first_tick
    THEN [self EXCEPT !.config = d.config,
                      !.width = d.config.width,
                      !.height = d.config.height,
                      !.map = initialize_map(d.config.width, d.config.height),
                      !.first_tick = FALSE]
    ELSE self

\* an except block that logs the error and prints nothing
on_exception_silent == <<>>

\* the token the except block of main prints
on_exception == <<"WAIT">>

\* the body of main's loop for one non-blank line: the bot afterwards and,
\* in out, what was printed to stdout
main_line(self, d) ==
    IF d.kind = "garbage"
    THEN [bot |-> [self EXCEPT !.raised = "json"], out |-> on_exception]
    ELSE LET r == process_tick(configure(self, d), d) IN
         IF r.raised # "none"
         THEN [bot |-> r, out |-> on_exception]
         ELSE [bot |-> r, out |-> <<r.move>>]

---------------------------------------------------------------------------
(* Input lines *)

DefaultConfig ==
    [width |-> Width, height |-> Height, hunt_threshold |-> HUNT_TICKS]

\* an observation with every field defaulted
Obs ==
    [kind |-> "obs", config |-> DefaultConfig, has_tick |-> TRUE,
     has_bot |-> TRUE, tick |-> 0, bot |-> <<0, 0>>, wall |-> <<>>,
     floor |-> <<>>, visible_gems |-> <<>>, signal_level |-> 0]

NoLine == [Obs EXCEPT !.kind = "none"]

BlankLine == [Obs EXCEPT !.kind = "blank"]

\* a line json.loads rejects
GarbageLine == [Obs EXCEPT !.kind = "garbage"]

Gem(p, ttl) == [position |-> p, ttl |-> ttl]

---------------------------------------------------------------------------
(* The state after HiddenGemsBot() and before the first line *)

Init ==
    /\ first_tick = TRUE
    /\ config = [DefaultConfig EXCEPT !.width = INITIAL_SIZE,
                                      !.height = INITIAL_SIZE]
    /\ width = INITIAL_SIZE
    /\ height = INITIAL_SIZE
    /\ map = <<>>
    /\ x = 0
    /\ y = 0
    /\ tick = 0
    /\ gems = <<>>
    /\ collected_gems = {}
    /\ frontier = {}
    /\ position_history = <<>>
    /\ signal_gradient_memory = <<>>
    /\ last_real_gem_tick = 0
    /\ data = NoLine
    /\ out = <<>>
    /\ raised = "none"
    /\ branch = "none"
    /\ nread = 0
    /\ nwritten = 0
    /\ start = <<0, 0>>
    /\ targets = {}
    /\ path = <<>>

\* the body of main's loop for the non-blank line d
HandleLine(d) ==
    /\ \E r \in {main_line(Self, d)} :
        /\ first_tick' = r.bot.first_tick
        /\ config' = r.bot.config
        /\ width' = r.bot.width
        /\ height' = r.bot.height
        /\ map' = r.bot.map
        /\ x' = r.bot.x
        /\ y' = r.bot.y
        /\ tick' = r.bot.tick
        /\ gems' = r.bot.gems
        /\ collected_gems' = r.bot.collected_gems
        /\ frontier' = r.bot.frontier
        /\ position_history' = r.bot.position_history
        /\ signal_gradient_memory' = r.bot.signal_gradient_memory
        /\ last_real_gem_tick' = r.bot.last_real_gem_tick
        /\ raised' = r.bot.raised
        /\ branch' = r.bot.branch
        /\ out' = r.out
        /\ nwritten' = nwritten + Len(r.out)
    /\ data' = d
    /\ nread' = nread + 1
    /\ UNCHANGED bfsvars

\* main reads the non-blank line d and handles it
ReadLine(d) == nread < MaxLines /\ HandleLine(d)

\* main reads a blank line: "continue"
SkipBlank ==
    /\ data.kind # "blank"
    /\ data' = BlankLine
    /\ out' = <<>>
    /\ raised' = "none"
    /\ branch' = "none"
    /\ UNCHANGED <<botvars, nread, nwritten, bfsvars>>

\* a line that is not JSON
ReadGarbage == ReadLine(GarbageLine)

---------------------------------------------------------------------------
(* Spec: the main loop fed blank, unparseable, incomplete and complete     *)
(* lines, tick after tick                                                   *)

\* a gem cell away from the two bot cells of the feeds, and a second one
GemP == <<2, 1>>
GemQ == <<1, 2>>

MainFeed ==
    {[Obs EXCEPT !.tick = tick + 1, !.has_tick = FALSE],
     [Obs EXCEPT !.tick = tick + 1, !.has_bot = FALSE],
     \* an IndexError in update_map, after one wall has been written
     [Obs EXCEPT !.tick = tick + 1, !.wall = <<<<1, 0>>, <<Width, 0>>>>],
     \* a KeyError in update_gems, after one gem has been recorded
     [Obs EXCEPT !.tick = tick + 1,
                 !.visible_gems = <<Gem(GemP, 5), Gem(GemQ, TTL_MISSING)>>]}
    \cup
    {[Obs EXCEPT !.tick = tick + 1, !.bot = b, !.wall = wf[1],
                 !.floor = wf[2], !.visible_gems = g]
        : b \in {<<0, 0>>, <<1, 1>>},
          wf \in {<<<<>>, <<>>>>, <<<<<<1, 0>>>>, <<<<0, 0>>, <<1, 1>>>>>>},
          g \in {<<>>, <<Gem(GemP, 5)>>}}

ReadObservation == \E d \in MainFeed : ReadLine(d)

Next == SkipBlank \/ ReadGarbage \/ ReadObservation

Spec == Init /\ [][Next]_vars

---------------------------------------------------------------------------
(* SpecMap: the main loop fed observations that differ in their wall and   *)
(* floor lists: consistent ones, contradictory ones (a cell in both lists, *)
(* a cell reported Wall on one tick and Floor on another) and ones with    *)
(* coordinates outside the grid                                            *)

AllCells == sorted_cells(Cells(Width, Height))

WallFeed ==
    {<<>>,
     \* the two in-bounds neighbours of the corner <<0, 0>>
     <<<<1, 0>>, <<0, 1>>>>,
     \* a negative coordinate
     <<<<-1, 0>>>>,
     \* a coordinate past the last column, after an in-bounds cell
     <<<<1, 1>>, <<Width, 0>>>>}

FloorFeed ==
    {<<>>, <<<<0, 0>>>>, <<<<1, 0>>, <<1, 1>>>>, AllCells}

MapFeed ==
    {[Obs EXCEPT !.tick = tick + 1, !.wall = w, !.floor = f]
        : w \in WallFeed, f \in FloorFeed}

ObserveMap == \E d \in MapFeed : ReadLine(d)

NextMap == ObserveMap

SpecMap == Init /\ [][NextMap]_vars

---------------------------------------------------------------------------
(* SpecGems: the main loop fed observations that differ in their visible   *)
(* gems and in whether the tick index advances by one or by two; the bot   *)
(* stands on <<0, 0>>, away from the gems                                  *)

GemListFeed ==
    {<<>>,
     <<Gem(GemP, 5)>>,
     <<Gem(GemQ, 5)>>,
     \* a gem reported with "ttl": null
     <<Gem(GemP, TTL_NONE)>>,
     \* a gem reported without a "ttl": update_gems raises KeyError there
     <<Gem(GemP, 5), Gem(GemQ, TTL_MISSING)>>}

GemFeed ==
    {[Obs EXCEPT !.tick = tick + dt, !.visible_gems = g]
        : dt \in {1, 2}, g \in GemListFeed}

ObserveGems == \E d \in GemFeed : ReadLine(d)

NextGems == ObserveGems

SpecGems == Init /\ [][NextGems]_vars

---------------------------------------------------------------------------
(* SpecHunt: the main loop fed observations whose tick index advances by   *)
(* one or jumps to either side of the hunt threshold, with or without a    *)
(* visible gem; the first observation configures the default hunt          *)
(* threshold or a lower one                                                *)

HuntThresholdFeed == {HUNT_TICKS, 2}

HuntFeed ==
    {[Obs EXCEPT !.tick = tick + dt, !.visible_gems = g,
                 !.config.hunt_threshold = ht]
        : dt \in {1, HUNT_TICKS - 1, HUNT_TICKS},
          g \in {<<>>, <<Gem(GemP, 5)>>},
          ht \in IF first_tick THEN HuntThresholdFeed ELSE {HUNT_TICKS}}

ObserveTicks == \E d \in HuntFeed : ReadLine(d)

NextHunt == ObserveTicks

SpecHunt == Init /\ [][NextHunt]_vars

---------------------------------------------------------------------------
(* SpecMove: the main loop fed observations that place the bot next to     *)
(* GemQ or two hops from it, show GemQ, GemFar, both or neither with equal *)
(* ttl, and carry whatever tick index the line says: one more than the     *)
(* last, or HUNT_TICKS more or less. The first observation may show the    *)
(* bot's own cell as Floor, which makes it a frontier cell; a gem in sight  *)
(* comes with a signal                                                     *)

GemFar == <<0, 0>>

BotFeed == {<<1, 1>>, <<2, 1>>}

SightFeed ==
    {<<>>, <<Gem(GemFar, 5)>>, <<Gem(GemQ, 5)>>,
     <<Gem(GemFar, 5), Gem(GemQ, 5)>>}

MoveFeed ==
    {[Obs EXCEPT !.tick = tick + dt, !.bot = b,
                 !.floor = IF own THEN <<b>> ELSE <<>>,
                 !.visible_gems = g,
                 !.signal_level = IF g = <<>> THEN 0 ELSE 20]
        : dt \in {d \in {1, HUNT_TICKS, -HUNT_TICKS} : tick + d >= 0},
          b \in BotFeed,
          g \in SightFeed,
          own \in IF first_tick THEN BOOLEAN ELSE {FALSE}}

ObserveGemsNearby == nread < MaxMoves /\ \E d \in MoveFeed : ReadLine(d)

NextMove == ObserveGemsNearby

SpecMove == Init /\ [][NextMove]_vars

---------------------------------------------------------------------------
(* SpecWalk: the main loop in closed loop with a grid without walls and    *)
(* without gems: the bot starts in the centre or in a corner and from then *)
(* on stands where its last answer led; each observation shows no cell,    *)
(* the bot's cell with its neighbours, or the whole grid as Floor, carries *)
(* no signal or one, and comes on the next tick or HUNT_TICKS later        *)

StartFeed == {<<1, 1>>, <<0, 0>>}

\* the cell the answer out leads to from the bot's cell
Moved ==
    LET n == IF out # <<>> /\ out[1] \in Range(DirOrder)
             THEN Step(<<x, y>>, out[1]) ELSE <<x, y>>
    IN  IF n \in Cells(Width, Height) THEN n ELSE <<x, y>>

\* the cells in sight of cell b
InSight(b, view) ==
    IF view = "none" THEN <<>>
    ELSE IF view = "all" THEN AllCells
    ELSE SelectSeq(AllCells, LAMBDA c : Manhattan(c, b) <= 1)

WalkFeed ==
    {[Obs EXCEPT !.tick = tick + dt, !.bot = b, !.floor = InSight(b, view),
                 !.signal_level = s]
        : dt \in {1, HUNT_TICKS},
          b \in IF first_tick THEN StartFeed ELSE {Moved},
          view \in {"none", "near", "all"},
          s \in {0, 20}}

ObserveWalk == nread < MaxMoves /\ \E d \in WalkFeed : ReadLine(d)

NextWalk == ObserveWalk

SpecWalk == Init /\ [][NextWalk]_vars

---------------------------------------------------------------------------
(* SpecRun: a run longer than the history buffers, in closed loop with a   *)
(* grid without walls. It starts some ticks before HUNT_TICKS in the       *)
(* centre or in a corner, the tick index advances by one, the bot sees its *)
(* cell and its neighbours as Floor, the signal changes from tick to tick, *)
(* GemQ shows on every 32nd tick, and the line of tick HUNT_TICKS may come *)
(* without the bot's position                                              *)

RunStartTicks == {HUNT_TICKS - k : k \in 1 .. 5}

RunFeed ==
    {[Obs EXCEPT !.tick = tick + dt, !.bot = b, !.has_bot = hb,
                 !.floor = InSight(b, "near"),
                 !.visible_gems = IF (tick + dt) % 32 = 26
                                  THEN <<Gem(GemQ, 5)>> ELSE <<>>,
                 !.signal_level = 10 * ((tick + dt) % 3)]
        : dt \in IF first_tick THEN RunStartTicks ELSE {1},
          b \in IF first_tick THEN StartFeed ELSE {Moved},
          hb \in IF tick + 1 = HUNT_TICKS THEN BOOLEAN ELSE {TRUE}}

ObserveRun == nread < MaxRun /\ \E d \in RunFeed : HandleLine(d)

NextRun == ObserveRun

SpecRun == Init /\ [][NextRun]_vars

---------------------------------------------------------------------------
(* SpecWalls: the main loop fed observations that put walls round the      *)
(* corner <<0, 0>> or round the centre <<1, 1>>, with the bot on one of the *)
(* two, GemP in sight or not (under a wall, when the centre is walled in), *)
(* the far corner seen as Floor or not, on the next tick or, for the first *)
(* line, HUNT_TICKS later                                                  *)

CornerWalls == <<<<1, 0>>, <<0, 1>>>>

CentreWalls == <<<<1, 0>>, <<0, 1>>, <<2, 1>>, <<1, 2>>>>

WallsFeed ==
    {[Obs EXCEPT !.tick = tick + dt, !.bot = b, !.wall = w, !.floor = f,
                 !.visible_gems = g]
        : dt \in IF first_tick THEN {1, HUNT_TICKS} ELSE {1},
          b \in StartFeed,
          w \in {<<>>, CornerWalls, CentreWalls},
          f \in {<<>>, <<<<2, 2>>>>},
          g \in {<<>>, <<Gem(GemP, 5)>>}}

ObserveWalls == nread < MaxMoves /\ \E d \in WallsFeed : HandleLine(d)

NextWalls == ObserveWalls

SpecWalls == Init /\ [][NextWalls]_vars

---------------------------------------------------------------------------
(* SpecBfs: bfs run on a configured bot, for every map of the grid with at *)
(* most MaxWalls Wall cells, every start cell on the grid or just off it,  *)
(* and target sets of at most two cells                                    *)

\* the map with Wall on the cells of walls and, on the others, Floor and
\* Unknown in a chequered pattern
BfsMap(walls) ==
    [c \in Cells(Width, Height) |->
        IF c \in walls THEN WALL
        ELSE IF (c[1] + c[2]) % 2 = 0 THEN FLOOR ELSE UNKNOWN]

\* three corners and an inner cell of the grid, and two cells just off it
BfsStarts ==
    {<<0, 0>>, <<1, 1>>, <<Width - 1, 0>>, <<0, Height - 1>>,
     <<-1, 0>>, <<Width, Height - 1>>}

\* no target, one cell (on the grid or just off it), or a cell together
\* with the last cell of the grid
BfsTargets ==
    {{}}
    \cup {{c} : c \in Cells(Width, Height) \cup {<<Width, 0>>}}
    \cup {{c, <<Width - 1, Height - 1>>} : c \in Cells(Width, Height)}

InitBfs ==
    /\ first_tick = FALSE
    /\ config = DefaultConfig
    /\ width = Width
    /\ height = Height
    /\ \E walls \in SUBSET Cells(Width, Height) :
          /\ Cardinality(walls) <= MaxWalls
          /\ map = BfsMap(walls)
    /\ x = 0
    /\ y = 0
    /\ tick = 0
    /\ gems = <<>>
    /\ collected_gems = {}
    /\ frontier = {}
    /\ position_history = <<>>
    /\ signal_gradient_memory = <<>>
    /\ last_real_gem_tick = 0
    /\ data = NoLine
    /\ out = <<>>
    /\ raised = "none"
    /\ branch = "none"
    /\ nread = 0
    /\ nwritten = 0
    /\ start \in BfsStarts
    /\ targets \in BfsTargets
    /\ path = <<>>

\* the call bfs(start, targets) and its return
RunBfs ==
    /\ branch = "none"
    /\ path' = bfs(map, width, height, start, targets)
    /\ branch' = "bfs"
    /\ UNCHANGED <<botvars, data, out, raised, nread, nwritten, start, targets>>

NextBfs == RunBfs

SpecBfs == InitBfs /\ [][NextBfs]_vars

---------------------------------------------------------------------------
(* Claims *)

\* the last line read was an observation whose update_map call returned
MapUpdated == data.kind = "obs" /\ raised \in {"none", "gems"}

\* the last line read was an observation whose update_gems call returned
GemsUpdated == data.kind = "obs" /\ raised = "none"

\* the last line read is unparseable or lacks a required field
Malformed ==
    \/ data.kind = "garbage"
    \/ data.kind = "obs" /\ (~data.has_tick \/ ~data.has_bot)

(* C8: every non-blank line read has been answered by exactly one token of
   the move vocabulary, written before the next line is read; a line that
   is unparseable, lacks a required field or makes the core raise is
   answered by WAIT, and a complete line that raises nowhere is answered by
   the move decide_move returned for it, whatever happened on the lines
   before. *)
C8_OneMovePerLine ==
    /\ nwritten = nread
    /\ data.kind \in {"garbage", "obs"} => Len(out) = 1 /\ out[1] \in Moves
    /\ (Malformed \/ raised # "none") => out = <<"WAIT">>
    /\ Malformed => raised # "none"
    /\ (data.kind = "obs" /\ raised = "none") =>
          /\ branch # "none"
          /\ position_history[Len(position_history)] = data.bot
          /\ branch = "wait" <=> out = <<"WAIT">>

\* a line decided after an earlier line of the run had raised
C8_Witness ==
    /\ data.kind = "obs"
    /\ raised = "none"
    /\ out # <<"WAIT">>
    /\ Len(position_history) < nread

\* the in-bounds cells next to cell c
Neighbours(c) == {n \in Cells(width, height) : Manhattan(c, n) = 1}

(* C4: after every update_map call that returns, frontier is exactly the set
   of Floor cells with at least one in-bounds orthogonal neighbour that is
   Unknown; so it is empty when no Floor cell has an Unknown neighbour. *)
C4_FrontierExact ==
    MapUpdated =>
        /\ frontier \subseteq Cells(width, height)
        /\ \A c \in Cells(width, height) :
              c \in frontier <=>
                  (map[c] = FLOOR /\ \E n \in Neighbours(c) : map[n] = UNKNOWN)

\* a room closed by walls in a map that still has Unknown cells: there are
\* Floor cells, none of them next to an Unknown cell, and the frontier is
\* empty
C4_Witness ==
    /\ MapUpdated
    /\ frontier = {}
    /\ \E c \in Cells(width, height) : map[c] = FLOOR
    /\ \E c \in Cells(width, height) : map[c] = UNKNOWN
    /\ nread > 1

(* C6: a cell classified Wall or Floor keeps that classification through
   every later line. *)
C6_Monotone ==
    [][\A c \in DOMAIN map : map[c] # UNKNOWN => map'[c] = map[c]]_vars

(* C7: a cell that is in the wall list and in the floor list of one
   update_map call is Wall after the call. *)
C7_WallPrecedence ==
    MapUpdated =>
        \A c \in Range(data.wall) \cap Range(data.floor) \cap Cells(width, height) :
            map[c] = WALL /\ ~is_walkable(map, width, height, c)

\* the entries of a cell list that lie on the grid
in_bounds_only(cells) ==
    SelectSeq(cells, LAMBDA c : c \in Cells(Width, Height))


(* C9: the map after an observation is the map the same observation gives
   with its out-of-bounds wall and floor entries taken out. *)
C9_OutOfBoundsIgnored ==
    [][(data'.kind = "obs" /\ data'.has_tick /\ data'.has_bot) =>
          map' = update_map(configure(Self, data').map, frontier,
                            Width, Height,
                            in_bounds_only(data'.wall),
                            in_bounds_only(data'.floor)).map]_vars

\* the least number of moves, each onto a walkable cell, that lead from a
\* cell of R onto a cell of tg, counted from k; -1 if there is no such walk
RECURSIVE Hops(_, _, _)
Hops(R, tg, k) ==
    LET R2 == R \cup {n \in Cells(width, height) :
                        map[n] # WALL /\ \E c \in R : Manhattan(c, n) = 1}
    IN  IF R \cap tg # {} THEN k
        ELSE IF R2 = R THEN -1
        ELSE Hops(R2, tg, k + 1)

HopDistance(tg) == Hops({start}, tg, 0)

\* the cell the moves of p lead to from cell c
RECURSIVE Walk(_, _)
Walk(c, p) == IF p = <<>> THEN c ELSE Walk(Step(c, Head(p)), Tail(p))

\* p of length n: the cells after each of its first 1..n moves
Visits(p) == {Walk(start, SubSeq(p, 1, k)) : k \in 1 .. Len(p)}

(* C2: bfs(start, targets) is empty exactly when targets is empty, start is
   a target or no target can be reached over walkable cells; otherwise it is
   a sequence of N/S/E/W moves as long as the least number of hops from
   start to a target, that passes over walkable cells only and ends on a
   target. *)
C2_BfsShortest ==
    LET dist == HopDistance(targets) IN
    branch = "bfs" =>
    /\ path = <<>> <=> (targets = {} \/ start \in targets \/ dist = -1)
    /\ path # <<>> =>
          /\ \A i \in 1 .. Len(path) : path[i] \in {"N", "S", "E", "W"}
          /\ Len(path) = dist
          /\ \A c \in Visits(path) :
                c \in Cells(width, height) /\ map[c] # WALL
          /\ Walk(start, path) \in targets

\* a path of three moves or more that had to go round a wall: the target
\* is nearer in Manhattan distance than in hops
C2_Witness ==
    /\ branch = "bfs"
    /\ Len(path) >= 3
    /\ \E t \in targets : Manhattan(start, t) < Len(path)
    /\ Cardinality(targets) = 2

\* the tracker holds a record for cell p
Tracked(p) == p \in GemKeys(gems)

\* the tracker holds a confirmed record for cell p
Confirmed(p) == Tracked(p) /\ ~GemAt(gems, p).estimated

\* the observation d shows a gem on cell p
Shows(d, p) == \E i \in 1 .. Len(d.visible_gems) : d.visible_gems[i].position = p

\* the line read in this step is an observation of the next tick that
\* shows no gem on p, and its update_gems call returns
NextTickWithout(p) ==
    /\ data'.kind = "obs"
    /\ raised' = "none"
    /\ tick' = tick + 1
    /\ ~Shows(data', p)

(* C3: a gem seen on p on tick T (a confirmed record, last seen on T) is
   still tracked, and p is not collected for it, after the update of tick
   T+1 that does not show it; after the update of tick T+2 that does not
   show it either, the record is gone and p is in collected_gems; from then
   on every line that does not show p leaves p in collected_gems (a set:
   p is in it once) and creates no record for p. *)
C3_CollectedOnce ==
    [][\A p \in {GemP, GemQ} :
        /\ (GemsUpdated /\ Shows(data, p) /\ Confirmed(p) /\ NextTickWithout(p)) =>
              /\ p \in GemKeys(gems')
              /\ GemAt(gems', p) = GemAt(gems, p)
              /\ p \in collected_gems' => p \in collected_gems
        /\ (GemsUpdated /\ ~Shows(data, p) /\ Confirmed(p)
                /\ GemAt(gems, p).last_seen = tick - 1 /\ NextTickWithout(p)) =>
              /\ p \notin GemKeys(gems')
              /\ p \in collected_gems'
        /\ (p \in collected_gems /\ ~Tracked(p) /\ ~Shows(data', p)) =>
              /\ p \in collected_gems'
              /\ p \notin GemKeys(gems')
      ]_vars

\* four ticks 1, 2, 3, 4, all decided: GemP was seen on tick 1 only,
\* collected on tick 3, and is still collected and untracked after tick 4
C3_Witness ==
    /\ tick = 4
    /\ Len(position_history) = 4
    /\ last_real_gem_tick = 1
    /\ GemP \in collected_gems
    /\ ~Tracked(GemP)

(* C5: after the gem update of every tick, signal-hunt mode is active
   exactly when tick - last_real_gem_tick is at least the hunt threshold the
   first observation configured (150 by default), last_real_gem_tick being
   the latest tick that showed a gem, 0 if none did. *)
C5_HuntActivation ==
    GemsUpdated =>
        (in_signal_hunt_mode(tick, last_real_gem_tick)
            <=> tick - last_real_gem_tick >= config.hunt_threshold)

\* the cells next to the bot that hold a confirmed gem
AdjacentConfirmed ==
    {p \in GemKeys(gems) : Confirmed(p) /\ Manhattan(p, <<x, y>>) = 1}

(* C1: on every tick whose update_gems call returned and left a confirmed
   gem on a cell orthogonally adjacent to the bot, the answer is the one
   direction that steps onto such a gem, whatever the frontier, the signal
   level, the hunt state and the other tracked gems are. *)
C1_AdjacentGemFirst ==
    (GemsUpdated /\ AdjacentConfirmed # {}) =>
        \E d \in {"N", "S", "E", "W"} :
            out = <<d>> /\ Step(<<x, y>>, d) \in AdjacentConfirmed

\* the bot steps onto the adjacent GemQ, which this tick does not show,
\* while signal-hunt mode is active, its own cell is a frontier cell and the
\* signal memory holds a positive level
C1_Witness ==
    /\ GemsUpdated
    /\ branch = "adjacent"
    /\ AdjacentConfirmed = {GemQ}
    /\ in_signal_hunt_mode(tick, last_real_gem_tick)
    /\ <<x, y>> \in frontier
    /\ \E i \in 1 .. Len(signal_gradient_memory) :
          signal_gradient_memory[i].signal > 0
    /\ out = <<"S">>

\* the gems the observation d shows, as cells
Visible(d) == {d.visible_gems[i].position : i \in 1 .. Len(d.visible_gems)}

\* the least number of moves from cell c to cell t over walkable cells, -1
\* if there is no way
HopsFrom(c, t) == Hops({c}, {t}, 0)

(* C10: on a tick that shows several gems with equal ttl, none adjacent to
   the bot, all reachable and one of them nearest in Manhattan distance, the
   answer is the first move of a shortest path to that nearest gem. *)
C10_NearestGemTargeted ==
    LET bot == <<x, y>>
        vis == Visible(data)
    IN  (/\ GemsUpdated
         /\ Cardinality(vis) >= 2
         /\ \A i, j \in 1 .. Len(data.visible_gems) :
               data.visible_gems[i].ttl = data.visible_gems[j].ttl
         /\ \A p \in vis : Manhattan(p, bot) > 1 /\ HopsFrom(bot, p) > 0)
        => \A n \in vis :
              (\A p \in vis \ {n} : Manhattan(n, bot) < Manhattan(p, bot))
              => \E d \in {"N", "S", "E", "W"} :
                    /\ out = <<d>>
                    /\ HopsFrom(Step(bot, d), n) = HopsFrom(bot, n) - 1

\* the cells next to the bot it may step on
WalkableNeighbours ==
    {n \in Neighbours(<<x, y>>) : is_walkable(map, width, height, n)}

\* the number of decided ticks on which the bot stood on cell c
VisitCount(c) ==
    Cardinality({i \in 1 .. Len(position_history) : position_history[i] = c})

\* the first direction, in the order N, S, E, W, that leads to a cell of S
FirstDirection(S) ==
    LET ds == SelectSeq(DirOrder, LAMBDA d : Step(<<x, y>>, d) \in S)
    IN  ds[1]

(* C11: whenever the final fallback decides the move and a neighbour is
   walkable, the answer is the first direction, in the order N, S, E, W,
   that leads to a walkable neighbour the bot has occupied the fewest
   times. *)
C11_LeastVisited ==
    (GemsUpdated /\ branch = "fallback") =>
        LET least == {n \in WalkableNeighbours :
                        \A o \in WalkableNeighbours :
                            VisitCount(n) <= VisitCount(o)}
        IN  out = <<FirstDirection(least)>>

\* the whole grid is observed Floor, the bot stands on <<1, 1>> with four
\* neighbours, no gem is tracked, there is no signal and no frontier
OpenFloor ==
    /\ \A c \in Cells(width, height) : map[c] = FLOOR
    /\ <<x, y>> = <<1, 1>>
    /\ Cardinality(Neighbours(<<x, y>>)) = 4
    /\ gems = <<>>
    /\ data.signal_level = 0
    /\ frontier = {}

\* the walkable neighbours all have the same score_move
EquallyRanked ==
    \A d, e \in Range(walkable_moves(Self)) :
        score_move(Self, d, data.signal_level)
            = score_move(Self, e, data.signal_level)

(* C12 as stated: on the open floor the fallback decides and the answer is
   N, on whatever tick. *)
C12_FallbackOnOpenFloor ==
    (GemsUpdated /\ OpenFloor) => (branch = "fallback" /\ out = <<"N">>)

(* C12: on the open floor, while signal-hunt mode is inactive, the fallback
   decides and the answer is N; and whenever the fallback decides and all
   walkable neighbours have the same score, the answer is the first walkable
   direction in the order N, S, E, W. *)
C12_TieBreak ==
    /\ (GemsUpdated /\ OpenFloor
            /\ ~in_signal_hunt_mode(tick, last_real_gem_tick)) =>
          (branch = "fallback" /\ out = <<"N">>)
    /\ (GemsUpdated /\ branch = "fallback" /\ EquallyRanked) =>
          out = <<FirstDirection(WalkableNeighbours)>>

\* the fallback answers N on the open floor
C12_Witness ==
    /\ GemsUpdated
    /\ OpenFloor
    /\ branch = "fallback"
    /\ out = <<"N">>

(* C13: after the map update of every tick, the cell the bot stands on is
   classified Floor, whether or not the observation lists it as floor. *)
C13_OwnCellFloor ==
    (MapUpdated /\ <<x, y>> \in Cells(width, height)) => map[<<x, y>>] = FLOOR

\* the bot with its position history as of the preceding tick, which is what
\* an anti-backtrack term has to look at
BeforeThisTick ==
    [Self EXCEPT !.position_history = SubSeq(@, 1, Len(@) - 1)]

(* C14: while signal-hunt mode decides and a neighbour is walkable, the
   answer is the first direction, in the order N, S, E, W, of greatest
   score, the score being +1.5 for an Unknown neighbour, -2.0 for the cell
   the bot occupied on the preceding tick, plus 20 * (signal now - signal
   then) for each remembered sample of the neighbour. *)
C14_HuntScore ==
    (GemsUpdated /\ branch = "hunt" /\ Len(position_history) >= 2) =>
        LET moves == walkable_moves(Self)
            keys == [i \in 1 .. Len(moves) |->
                        score_move_signal_only(BeforeThisTick, moves[i],
                                               data.signal_level)]
        IN  out = <<first_max(moves, keys)>>

\* the tracked confirmed gems the bot can walk to
ReachableConfirmed ==
    {p \in GemKeys(gems) : Confirmed(p) /\ HopsFrom(<<x, y>>, p) > 0}

\* the cell of S nearest to the bot in Manhattan distance, the first in
\* lexicographic order among equally distant ones
Nearest(S) ==
    CHOOSE n \in S : \A p \in S \ {n} :
        \/ Manhattan(n, <<x, y>>) < Manhattan(p, <<x, y>>)
        \/ Manhattan(n, <<x, y>>) = Manhattan(p, <<x, y>>) /\ TupleLess(n, p)

(* C15: on a tick that shows no gem, with no confirmed gem adjacent and
   signal-hunt mode inactive, if the tracker holds confirmed gems the bot can
   walk to, the answer is the first move of a shortest path to the nearest
   of them in Manhattan distance, the lexicographically first among equally
   distant ones. *)
C15_NearestRemembered ==
    (/\ GemsUpdated
     /\ data.visible_gems = <<>>
     /\ AdjacentConfirmed = {}
     /\ ~in_signal_hunt_mode(tick, last_real_gem_tick)
     /\ ReachableConfirmed # {})
    => LET n == Nearest(ReachableConfirmed)
       IN  \E d \in {"N", "S", "E", "W"} :
              /\ out = <<d>>
              /\ HopsFrom(Step(<<x, y>>, d), n) = HopsFrom(<<x, y>>, n) - 1

\* the last n items of s, all of s if it has fewer
LastN(s, n) == SubSeq(s, IF Len(s) > n THEN Len(s) - n + 1 ELSE 1, Len(s))

(* C16: every line that reaches decide_move, whichever branch decides it,
   appends the bot's position to position_history and its position and
   signal to signal_gradient_memory and keeps the last 30 and the last 20
   entries, in arrival order; a line that does not reach decide_move leaves
   both unchanged; so both stay within 30 and 20 entries and end with the
   tick just decided. *)
C16_HistoryCurrent ==
    [][LET decided == data'.kind = "obs" /\ raised' = "none"
           here == <<x', y'>>
           sample == [pos |-> here, signal |-> data'.signal_level]
       IN  /\ Len(position_history') <= 30
           /\ Len(signal_gradient_memory') <= 20
           /\ decided =>
                 /\ position_history'
                        = LastN(Append(position_history, here), 30)
                 /\ signal_gradient_memory'
                        = LastN(Append(signal_gradient_memory, sample), 20)
           /\ ~decided =>
                 UNCHANGED <<position_history, signal_gradient_memory>>]_vars

\* both buffers are full and have evicted their oldest entries, in a run
\* that the fallback, the frontier, the hunt and the gem branches decided
C16_Witness ==
    /\ GemsUpdated
    /\ nread > 31
    /\ Len(position_history) = 30
    /\ Len(signal_gradient_memory) = 20
    /\ position_history[30] = <<x, y>>
    /\ collected_gems # {}

(* C17: with tick indices that never decrease, after every update_gems call
   that returns, each tracked confirmed gem was last seen on this tick or on
   the one before: tick - 1 <= last_seen <= tick. *)
C17_ConfirmedFresh ==
    GemsUpdated =>
        \A i \in 1 .. Len(gems) :
            ~gems[i].estimated =>
                (gems[i].last_seen >= tick - 1 /\ gems[i].last_seen <= tick)

\* GemP, out of view for one tick, is still tracked, and GemQ, out of view
\* for longer, is not
C17_Witness ==
    /\ GemsUpdated
    /\ Confirmed(GemP)
    /\ GemAt(gems, GemP).last_seen = tick - 1
    /\ ~Tracked(GemQ)
    /\ GemQ \in collected_gems

\* the bot is on the grid and every tracked confirmed gem lies on a cell of
\* the grid that is not Wall
WellPlaced ==
    /\ <<x, y>> \in Cells(width, height)
    /\ \A p \in GemKeys(gems) :
          Confirmed(p) => (p \in Cells(width, height) /\ map[p] # WALL)

(* C18: when the bot is on the grid and no tracked confirmed gem lies on a
   Wall cell or off the grid, every observation that reaches decide_move is
   answered, by WAIT exactly when none of the bot's four neighbours is
   walkable, and otherwise by a direction that leads to a cell of the grid
   that is not Wall. *)
C18_ValidMove ==
    (GemsUpdated /\ WellPlaced) =>
        /\ Len(out) = 1
        /\ out = <<"WAIT">> <=> WalkableNeighbours = {}
        /\ out # <<"WAIT">> =>
              /\ out[1] \in {"N", "S", "E", "W"}
              /\ Step(<<x, y>>, out[1]) \in Cells(width, height)
              /\ map[Step(<<x, y>>, out[1])] # WALL

\* the bot, walled in, with a confirmed gem it cannot walk to, answers WAIT
C18_Witness ==
    /\ GemsUpdated
    /\ WellPlaced
    /\ WalkableNeighbours = {}
    /\ \E p \in GemKeys(gems) : Confirmed(p)
    /\ branch = "wait"
    /\ out = <<"WAIT">>

(* C19: with strictly increasing tick indices, on every tick that reaches
   decide_move with signal-hunt mode active, no gem is visible and the
   tracker holds no confirmed gem; so the signal-hunt branch never decides a
   tick that has a visible or remembered confirmed gem. *)
C19_HuntWithoutGems ==
    (GemsUpdated /\ (branch = "hunt"
                        \/ in_signal_hunt_mode(tick, last_real_gem_tick))) =>
        /\ data.visible_gems = <<>>
        /\ \A p \in GemKeys(gems) : ~Confirmed(p)

\* the signal-hunt branch decides a tick after a gem was seen, remembered
\* and taken for collected
C19_Witness ==
    /\ GemsUpdated
    /\ branch = "hunt"
    /\ tick > HUNT_TICKS
    /\ last_real_gem_tick > 0
    /\ GemP \in collected_gems
    /\ gems = <<>>

\* the path decide_move would follow to the frontier
FrontierPath == find_path_to_frontier(map, width, height, frontier, x, y)

(* C20: as long as no gem has been sighted (last_real_gem_tick = 0), every
   tick from 150 on that reaches decide_move with a walkable neighbour is
   decided by the signal-hunt branch, whatever the frontier is; and the
   frontier branch decides a tick only before tick 150 or less than 150
   ticks after a gem sighting. *)
C20_HuntShutsOffFrontier ==
    GemsUpdated =>
        /\ (last_real_gem_tick = 0 /\ tick >= 150 /\ WalkableNeighbours # {})
              => branch = "hunt"
        /\ branch = "frontier" => tick - last_real_gem_tick < 150

\* the signal-hunt branch decides a tick on which there is a path to the
\* frontier, and its answer is not the first move of that path
C20_Witness ==
    /\ GemsUpdated
    /\ last_real_gem_tick = 0
    /\ tick >= 150
    /\ branch = "hunt"
    /\ FrontierPath # <<>>
    /\ out # <<FrontierPath[1]>>

====
